---- MODULE Spec2Model ----
(***************************************************************************)
(* Model of src/channel_data.rs: the ChannelData column aggregator of the  *)
(* CeBrA event builder.  ChannelData owns one Vec<f64> per                 *)
(* ChannelDataField in a BTreeMap plus a row counter; append_event pads    *)
(* every column with INVALID_VALUE and then overwrites the last cell of    *)
(* the three fields of each hit's channel type; convert_to_series consumes *)
(* the aggregator and returns one named Series per field.                  *)
(* f64 values are modelled by integers (only equality and copying of       *)
(* values matter in this file).                                            *)
(***************************************************************************)
EXTENDS Integers, Sequences, FiniteSets, TLC

\* ---------------------------------------------------------------- bounds
\* most append_event calls in one run
MaxRows == 2
\* most hits in one event
MaxHits == 2

\* ------------------------------------------------------------- constants
INVALID_VALUE == -1000000

\* enum ChannelDataField: the derived Ord compares the discriminants, which
\* follow declaration order
Cebra0Energy == 0
Cebra1Energy == 1
Cebra2Energy == 2
Cebra3Energy == 3
Cebra4Energy == 4
Cebra5Energy == 5
Cebra6Energy == 6
Cebra0Short == 7
Cebra1Short == 8
Cebra2Short == 9
Cebra3Short == 10
Cebra4Short == 11
Cebra5Short == 12
Cebra6Short == 13
Cebra0Time == 14
Cebra1Time == 15
Cebra2Time == 16
Cebra3Time == 17
Cebra4Time == 18
Cebra5Time == 19
Cebra6Time == 20

\* ChannelDataField::get_field_vec(): EnumIter yields the variants in
\* declaration order
get_field_vec ==
    << Cebra0Energy, Cebra1Energy, Cebra2Energy, Cebra3Energy,
       Cebra4Energy, Cebra5Energy, Cebra6Energy,
       Cebra0Short, Cebra1Short, Cebra2Short, Cebra3Short,
       Cebra4Short, Cebra5Short, Cebra6Short,
       Cebra0Time, Cebra1Time, Cebra2Time, Cebra3Time,
       Cebra4Time, Cebra5Time, Cebra6Time >>

\* AsRefStr: the variant's name
as_ref(f) ==
    CASE f = Cebra0Energy -> "Cebra0Energy"
      [] f = Cebra1Energy -> "Cebra1Energy"
      [] f = Cebra2Energy -> "Cebra2Energy"
      [] f = Cebra3Energy -> "Cebra3Energy"
      [] f = Cebra4Energy -> "Cebra4Energy"
      [] f = Cebra5Energy -> "Cebra5Energy"
      [] f = Cebra6Energy -> "Cebra6Energy"
      [] f = Cebra0Short -> "Cebra0Short"
      [] f = Cebra1Short -> "Cebra1Short"
      [] f = Cebra2Short -> "Cebra2Short"
      [] f = Cebra3Short -> "Cebra3Short"
      [] f = Cebra4Short -> "Cebra4Short"
      [] f = Cebra5Short -> "Cebra5Short"
      [] f = Cebra6Short -> "Cebra6Short"
      [] f = Cebra0Time -> "Cebra0Time"
      [] f = Cebra1Time -> "Cebra1Time"
      [] f = Cebra2Time -> "Cebra2Time"
      [] f = Cebra3Time -> "Cebra3Time"
      [] f = Cebra4Time -> "Cebra4Time"
      [] f = Cebra5Time -> "Cebra5Time"
      [] f = Cebra6Time -> "Cebra6Time"

\* ------------------------------------------------- external collaborators
\* ChannelType (channel_map.rs): the seven CeBrA detector types this file
\* matches on, and "Other" for every variant that falls to the `_` arm
CebraTypes == {"Cebra0", "Cebra1", "Cebra2", "Cebra3", "Cebra4", "Cebra5", "Cebra6"}
ChannelType == CebraTypes \cup {"Other"}

\* ChannelMap::get_channel_data(&uuid) -> Option<&ChannelData>: a channel map
\* is a partial function from uuids to channel data
get_channel_data(m, uuid) ==
    IF uuid \in DOMAIN m
    THEN [is_some |-> TRUE, channel_type |-> m[uuid]]
    ELSE [is_some |-> FALSE, channel_type |-> "Other"]

\* CompassData: the fields of a hit this file reads
CompassData(u, e, es, t) ==
    [uuid |-> u, energy |-> e, energy_short |-> es, timestamp |-> t]

\* two hits with different uuids and different values
HitA == CompassData(0, 10, 1, 100)
HitB == CompassData(1, 20, 2, 200)
\* a hit with the uuid of HitA and the values of HitB
HitA2 == CompassData(0, 20, 2, 200)

\* the runs: the channel map of a run and the hits its events are made of
Runs ==
    { \* two detectors
      [map |-> (0 :> "Cebra0") @@ (1 :> "Cebra1"), source |-> {HitA, HitB}],
      \* two detectors, the larger uuid on the smaller field
      [map |-> (0 :> "Cebra6") @@ (1 :> "Cebra0"), source |-> {HitA, HitB}],
      \* one channel firing with two different values
      [map |-> (0 :> "Cebra2"), source |-> {HitA, HitA2}],
      \* two channels mapped to one detector
      [map |-> (0 :> "Cebra3") @@ (1 :> "Cebra3"), source |-> {HitA, HitB}],
      \* a detector and a channel of another kind
      [map |-> (0 :> "Cebra4") @@ (1 :> "Other"), source |-> {HitA, HitB}],
      \* a detector and a channel without an entry
      [map |-> (0 :> "Cebra5"), source |-> {HitA, HitB}],
      \* a channel of another kind and a channel without an entry
      [map |-> (0 :> "Other"), source |-> {HitA, HitB}] }

\* a hit of a channel without an entry in the maps of ScenarioRuns
HitU == CompassData(2, 30, 3, 300)

\* runs of three channels: two detectors and a channel without an entry
ScenarioRuns ==
    { [map |-> (0 :> "Cebra0") @@ (1 :> "Cebra1"), source |-> {HitA, HitB, HitU}],
      [map |-> (0 :> "Cebra5") @@ (1 :> "Cebra2"), source |-> {HitA, HitB, HitU}] }

\* the events a caller can pass: Vec<CompassData> of at most MaxHits hits
Events(hits) == UNION { [1..n -> hits] : n \in 0..MaxHits }

\* ------------------------------------------------------------------ state
VARIABLES
    fields,     \* ChannelData.fields: BTreeMap<ChannelDataField, Vec<f64>>
    rows,       \* ChannelData.rows
    lifecycle,  \* "Accumulating" while the ChannelData value is owned by the
                \* caller, "Finalized" once convert_to_series(self) took it
    series,     \* the Vec<Series> returned by convert_to_series
    map,        \* the ChannelMap the caller passes to append_event
    source,     \* the hits the events of this run are made of
    log         \* history: the events passed to append_event, in call order

vars == << fields, rows, lifecycle, series, map, source, log >>

\* ------------------------------------------------------------ ChannelData
\* default() inserting all fields but the last
ChannelData_default_short ==
    [fields |-> [f \in {get_field_vec[i] : i \in 1..(Len(get_field_vec) - 1)} |-> << >>],
     rows |-> 0]

\* impl Default for ChannelData
ChannelData_default ==
    [fields |-> [f \in {get_field_vec[i] : i \in 1..Len(get_field_vec)} |-> << >>],
     rows |-> 0]

\* push_defaults comparing against the row count before the increment
push_defaults_lagging(fs, r) ==
    [f \in DOMAIN fs |->
        IF Len(fs[f]) < r - 1 THEN Append(fs[f], INVALID_VALUE) ELSE fs[f]]

\* push_defaults padding with 0.0
push_defaults_zero(fs, r) ==
    [f \in DOMAIN fs |->
        IF Len(fs[f]) < r THEN Append(fs[f], 0) ELSE fs[f]]

\* push_defaults padding with the column's previous value
push_defaults_carry(fs, r) ==
    [f \in DOMAIN fs |->
        IF Len(fs[f]) < r
        THEN Append(fs[f], IF Len(fs[f]) = 0 THEN INVALID_VALUE ELSE fs[f][Len(fs[f])])
        ELSE fs[f]]

\* fn push_defaults(&mut self), with self.rows = r
push_defaults(fs, r) ==
    [f \in DOMAIN fs |->
        IF Len(fs[f]) < r THEN Append(fs[f], INVALID_VALUE) ELSE fs[f]]

\* set_value that writes only a cell still holding the padding
set_value_first_wins(fs, field, value) ==
    IF field \in DOMAIN fs
    THEN IF Len(fs[field]) > 0 /\ fs[field][Len(fs[field])] = INVALID_VALUE
         THEN [fs EXCEPT ![field] = [@ EXCEPT ![Len(@)] = value]]
         ELSE fs
    ELSE fs

\* set_value assigning the value to every cell of the column
set_value_all_rows(fs, field, value) ==
    IF field \in DOMAIN fs
    THEN [fs EXCEPT ![field] = [i \in 1..Len(@) |-> value]]
    ELSE fs

\* fn set_value(&mut self, field, value)
set_value(fs, field, value) ==
    IF field \in DOMAIN fs
    THEN IF Len(fs[field]) > 0
         THEN [fs EXCEPT ![field] = [@ EXCEPT ![Len(@)] = value]]
         ELSE fs
    ELSE fs

\* a match arm passing energy and energy_short to the wrong fields
set_three_swapped(fs, fe, fsh, ft, hit) ==
    set_value(set_value(set_value(fs, fe, hit.energy_short), fsh, hit.energy),
              ft, hit.timestamp)

\* a match arm without its third set_value call
set_three_no_time(fs, fe, fsh, ft, hit) ==
    set_value(set_value(fs, fe, hit.energy), fsh, hit.energy_short)

\* the three set_value calls of one match arm
set_three(fs, fe, fsh, ft, hit) ==
    set_value(set_value(set_value(fs, fe, hit.energy), fsh, hit.energy_short),
              ft, hit.timestamp)

\* match whose `_` arm writes the hit into the Cebra6 fields
match_channel_type_other_writes(fs, channel_type, hit) ==
    CASE channel_type = "Cebra0" ->
            set_three(fs, Cebra0Energy, Cebra0Short, Cebra0Time, hit)
      [] channel_type = "Cebra1" ->
            set_three(fs, Cebra1Energy, Cebra1Short, Cebra1Time, hit)
      [] channel_type = "Cebra2" ->
            set_three(fs, Cebra2Energy, Cebra2Short, Cebra2Time, hit)
      [] channel_type = "Cebra3" ->
            set_three(fs, Cebra3Energy, Cebra3Short, Cebra3Time, hit)
      [] channel_type = "Cebra4" ->
            set_three(fs, Cebra4Energy, Cebra4Short, Cebra4Time, hit)
      [] channel_type = "Cebra5" ->
            set_three(fs, Cebra5Energy, Cebra5Short, Cebra5Time, hit)
      [] OTHER ->
            set_three(fs, Cebra6Energy, Cebra6Short, Cebra6Time, hit)

\* match channel_data.channel_type { ... }
match_channel_type(fs, channel_type, hit) ==
    CASE channel_type = "Cebra0" ->
            set_three(fs, Cebra0Energy, Cebra0Short, Cebra0Time, hit)
      [] channel_type = "Cebra1" ->
            set_three(fs, Cebra1Energy, Cebra1Short, Cebra1Time, hit)
      [] channel_type = "Cebra2" ->
            set_three(fs, Cebra2Energy, Cebra2Short, Cebra2Time, hit)
      [] channel_type = "Cebra3" ->
            set_three(fs, Cebra3Energy, Cebra3Short, Cebra3Time, hit)
      [] channel_type = "Cebra4" ->
            set_three(fs, Cebra4Energy, Cebra4Short, Cebra4Time, hit)
      [] channel_type = "Cebra5" ->
            set_three(fs, Cebra5Energy, Cebra5Short, Cebra5Time, hit)
      [] channel_type = "Cebra6" ->
            set_three(fs, Cebra6Energy, Cebra6Short, Cebra6Time, hit)
      [] OTHER -> fs

\* loop body that takes the first detector for a hit the map does not know
dispatch_hit_none_default(fs, hit, m) ==
    LET channel_data == get_channel_data(m, hit.uuid) IN
    IF ~channel_data.is_some
    THEN match_channel_type(fs, "Cebra0", hit)
    ELSE match_channel_type(fs, channel_data.channel_type, hit)

\* body of the for loop of append_event for one hit: `None => continue`,
\* then the match on the channel type
dispatch_hit(fs, hit, m) ==
    LET channel_data == get_channel_data(m, hit.uuid) IN
    IF ~channel_data.is_some
    THEN fs
    ELSE match_channel_type(fs, channel_data.channel_type, hit)

\* loop that leaves (break) at the first hit the map does not know
RECURSIVE process_hits_break(_, _, _)
process_hits_break(fs, event, m) ==
    IF event = << >> THEN fs
    ELSE IF ~get_channel_data(m, Head(event).uuid).is_some THEN fs
    ELSE process_hits_break(dispatch_hit(fs, Head(event), m), Tail(event), m)

\* for hit in event.iter() { ... }
RECURSIVE process_hits(_, _, _)
process_hits(fs, event, m) ==
    IF event = << >> THEN fs
    ELSE process_hits(dispatch_hit(fs, Head(event), m), Tail(event), m)

\* append_event padding the columns after the hits were written
append_event_late_pad(fs, r, event, m) ==
    LET r1 == r + 1
    IN  [fields |-> push_defaults(process_hits(fs, event, m), r1), rows |-> r1]

\* pub fn append_event(&mut self, event, map)
append_event(fs, r, event, m) ==
    LET r1 == r + 1
        fs1 == push_defaults(fs, r1)
    IN  [fields |-> process_hits(fs1, event, m), rows |-> r1]

\* iteration in descending key order
RECURSIVE into_iter_descending(_)
into_iter_descending(keys) ==
    IF keys = {} THEN << >>
    ELSE LET k == CHOOSE x \in keys : \A y \in keys : x >= y
         IN  << k >> \o into_iter_descending(keys \ {k})

\* BTreeMap::into_iter(): the keys in ascending Ord
RECURSIVE into_iter(_)
into_iter(keys) ==
    IF keys = {} THEN << >>
    ELSE LET k == CHOOSE x \in keys : \A y \in keys : x <= y
         IN  << k >> \o into_iter(keys \ {k})

\* polars Series::new(name, values): a named f64 column holding the values
Series_new(name, values) == [name |-> name, values |-> values]

\* conversion that loses the last row of every column
convert_to_series_truncating(fs) ==
    LET keys == into_iter(DOMAIN fs)
    IN  [i \in 1..Len(keys) |->
            Series_new(as_ref(keys[i]), SubSeq(fs[keys[i]], 1, Len(fs[keys[i]]) - 1))]

\* pub fn convert_to_series(self) -> Vec<Series>
convert_to_series(fs) ==
    LET keys == into_iter(DOMAIN fs)
    IN  [i \in 1..Len(keys) |-> Series_new(as_ref(keys[i]), fs[keys[i]])]

\* ---------------------------------------------------------------- actions
Init ==
    /\ fields = ChannelData_default.fields
    /\ rows = ChannelData_default.rows
    /\ lifecycle = "Accumulating"
    /\ series = << >>
    /\ \E run \in Runs : map = run.map /\ source = run.source
    /\ log = << >>

\* append_event callable on a ChannelData that was already moved out
AppendEvent_after_move ==
    /\ rows < MaxRows
    /\ \E event \in Events(source) :
          LET res == append_event(fields, rows, event, map) IN
          /\ fields' = res.fields
          /\ rows' = res.rows
          /\ log' = Append(log, event)
    /\ UNCHANGED << lifecycle, series, map, source >>

\* a call data.append_event(event, &map) on the owned ChannelData
AppendEvent ==
    /\ lifecycle = "Accumulating"
    /\ rows < MaxRows
    /\ \E event \in Events(source) :
          LET res == append_event(fields, rows, event, map) IN
          /\ fields' = res.fields
          /\ rows' = res.rows
          /\ log' = Append(log, event)
    /\ UNCHANGED << lifecycle, series, map, source >>

\* a call data.convert_to_series(): self is moved into the call, so the
\* caller has no ChannelData left to call anything on.  fields and rows keep
\* the value that was consumed.
ConvertToSeries ==
    /\ lifecycle = "Accumulating"
    /\ series' = convert_to_series(fields)
    /\ lifecycle' = "Finalized"
    /\ UNCHANGED << fields, rows, map, source, log >>

Next == AppendEvent \/ ConvertToSeries

Spec == Init /\ [][Next]_vars

\* the same aggregator on the runs of ScenarioRuns
InitScenario ==
    /\ fields = ChannelData_default.fields
    /\ rows = ChannelData_default.rows
    /\ lifecycle = "Accumulating"
    /\ series = << >>
    /\ \E run \in ScenarioRuns : map = run.map /\ source = run.source
    /\ log = << >>

SpecScenario == InitScenario /\ [][Next]_vars

\* ------------------------------------------------- vocabulary of the claims
\* what the channel map resolves a hit to: a channel type, or NoData when
\* the map has no entry for the hit's uuid
NoData == "NoData"
RoleOf(hit) == IF hit.uuid \in DOMAIN map THEN map[hit.uuid] ELSE NoData

RoleIndex(R) ==
    CASE R = "Cebra0" -> 0 [] R = "Cebra1" -> 1 [] R = "Cebra2" -> 2
      [] R = "Cebra3" -> 3 [] R = "Cebra4" -> 4 [] R = "Cebra5" -> 5
      [] R = "Cebra6" -> 6

\* the three fields of a role
EnergyOf(R) ==
    CASE R = "Cebra0" -> Cebra0Energy [] R = "Cebra1" -> Cebra1Energy
      [] R = "Cebra2" -> Cebra2Energy [] R = "Cebra3" -> Cebra3Energy
      [] R = "Cebra4" -> Cebra4Energy [] R = "Cebra5" -> Cebra5Energy
      [] R = "Cebra6" -> Cebra6Energy
ShortOf(R) ==
    CASE R = "Cebra0" -> Cebra0Short [] R = "Cebra1" -> Cebra1Short
      [] R = "Cebra2" -> Cebra2Short [] R = "Cebra3" -> Cebra3Short
      [] R = "Cebra4" -> Cebra4Short [] R = "Cebra5" -> Cebra5Short
      [] R = "Cebra6" -> Cebra6Short
TimeOf(R) ==
    CASE R = "Cebra0" -> Cebra0Time [] R = "Cebra1" -> Cebra1Time
      [] R = "Cebra2" -> Cebra2Time [] R = "Cebra3" -> Cebra3Time
      [] R = "Cebra4" -> Cebra4Time [] R = "Cebra5" -> Cebra5Time
      [] R = "Cebra6" -> Cebra6Time
FieldsOfRole(R) == {EnergyOf(R), ShortOf(R), TimeOf(R)}

\* the event of the append_event call that a step makes
IsAppendStep == log' # log
NewEvent == log'[Len(log')]

HitIndexes(e) == 1..Len(e)
HitsOf(e, R) == {i \in HitIndexes(e) : RoleOf(e[i]) = R}
Triple(hit) == << hit.energy, hit.energy_short, hit.timestamp >>
RowTriple(fs, R, k) == << fs[EnergyOf(R)][k], fs[ShortOf(R)][k], fs[TimeOf(R)][k] >>
SentinelTriple == << INVALID_VALUE, INVALID_VALUE, INVALID_VALUE >>
Max(S) == CHOOSE x \in S : \A y \in S : y <= x
RemoveAt(e, i) == SubSeq(e, 1, i - 1) \o SubSeq(e, i + 1, Len(e))
EventPermutations(n) == {p \in [1..n -> 1..n] : \A i, j \in 1..n : p[i] = p[j] => i = j}

\* ------------------------------------------------------------------ claims
\* C1: after N append_event calls from ChannelData::default() the row
\* counter is N and every column has length exactly N.
C1_ColumnLength ==
    /\ rows = Len(log)
    /\ \A f \in DOMAIN fields : Len(fields[f]) = rows

C1_Witness ==
    /\ rows = 2
    /\ Len(log[1]) > 0
    /\ Len(log[2]) = 0

\* C2: if event k has no hit the channel map resolves to role R, the Energy,
\* Short and Time columns of R hold INVALID_VALUE at row k, right after
\* that call and after every later call.
C2_SentinelFill ==
    \A k \in 1..Len(log) : \A R \in CebraTypes :
        HitsOf(log[k], R) = {} => RowTriple(fields, R, k) = SentinelTriple

C2_Witness ==
    /\ Len(log) = 2
    /\ \E R \in CebraTypes :
          /\ HitsOf(log[1], R) = {}
          /\ HitsOf(log[2], R) # {}
          /\ RowTriple(fields, R, 1) = SentinelTriple
          /\ RowTriple(fields, R, 2) # SentinelTriple

\* C3: a hit resolving to a known role writes the last row of exactly the
\* three fields of that role (every other field keeps its cell), and when
\* it is the only hit of its role in the event the last row of the role's
\* Energy, Short and Time is the hit's energy, energy_short and timestamp.
C3_Dispatch ==
    [][IsAppendStep =>
        LET e == NewEvent
            padded == push_defaults(fields, rows + 1)
        IN  \A i \in HitIndexes(e) :
              RoleOf(e[i]) \in CebraTypes =>
                LET R == RoleOf(e[i])
                    before == process_hits(padded, SubSeq(e, 1, i - 1), map)
                    after == process_hits(padded, SubSeq(e, 1, i), map)
                IN  /\ RowTriple(after, R, rows + 1) = Triple(e[i])
                    /\ \A f \in DOMAIN fields \ FieldsOfRole(R) : after[f] = before[f]
                    /\ \A f \in FieldsOfRole(R) :
                          SubSeq(after[f], 1, rows) = SubSeq(before[f], 1, rows)
                    /\ HitsOf(e, R) = {i} => RowTriple(fields', R, rows') = Triple(e[i])
      ]_vars

C3_Witness ==
    /\ Len(log) >= 1
    /\ LET e == log[Len(log)] IN
       /\ Len(e) = 2
       /\ RoleOf(e[1]) \in CebraTypes
       /\ RoleOf(e[2]) \in CebraTypes
       /\ RoleOf(e[1]) # RoleOf(e[2])
       /\ RowTriple(fields, RoleOf(e[1]), rows) = Triple(e[1])
       /\ RowTriple(fields, RoleOf(e[2]), rows) = Triple(e[2])

\* C4: when two or more hits of one event resolve to the same role with
\* different triples, the role's row holds the triple of the last of them
\* in iteration order.
C4_LastWriteWins ==
    \A k \in 1..Len(log) : \A R \in CebraTypes :
        LET e == log[k] IN
        (\E i, j \in HitsOf(e, R) : i < j /\ Triple(e[i]) # Triple(e[j]))
            => RowTriple(fields, R, k) = Triple(e[Max(HitsOf(e, R))])

C4_Witness ==
    /\ Len(log) >= 1
    /\ \E R \in CebraTypes :
          LET e == log[1] IN
          /\ Len(e) = 2
          /\ HitsOf(e, R) = {1, 2}
          /\ Triple(e[1]) # Triple(e[2])
          /\ RowTriple(fields, R, 1) = Triple(e[2])

\* C5: an append_event call whose event holds only hits the channel map
\* fails to resolve adds exactly one row, and every field holds
\* INVALID_VALUE in that row.
C5_UnknownHitTolerance ==
    [][(IsAppendStep /\ \A i \in HitIndexes(NewEvent) : RoleOf(NewEvent[i]) = NoData) =>
          /\ rows' = rows + 1
          /\ \A f \in DOMAIN fields' :
                /\ Len(fields'[f]) = rows'
                /\ fields'[f][rows'] = INVALID_VALUE
      ]_vars

C5_Witness ==
    /\ Len(log) = 2
    /\ Len(log[2]) = 2
    /\ \A i \in HitIndexes(log[2]) : RoleOf(log[2][i]) = NoData
    /\ \A f \in DOMAIN fields : fields[f][2] = INVALID_VALUE
    /\ \E f \in DOMAIN fields : fields[f][1] # INVALID_VALUE

\* C6: a hit that resolves to None and a hit that resolves to a channel type
\* outside Cebra0..Cebra6 are both skipped: at any position of an event,
\* append_event leaves the state it leaves for the event without that hit.
C6_SkipEquivalence ==
    [][IsAppendStep =>
        \A i \in HitIndexes(NewEvent) :
            RoleOf(NewEvent[i]) \notin CebraTypes =>
                append_event(fields, rows, RemoveAt(NewEvent, i), map)
                    = [fields |-> fields', rows |-> rows']
      ]_vars

C6_Witness ==
    /\ Len(log) = 2
    /\ \E i, j \in HitIndexes(log[1]) :
          /\ RoleOf(log[1][i]) = "Other"
          /\ RoleOf(log[1][j]) \in CebraTypes
          /\ RowTriple(fields, RoleOf(log[1][j]), 1) = Triple(log[1][j])
    /\ \A i \in HitIndexes(log[2]) : RoleOf(log[2][i]) = "Other"
    /\ Len(log[2]) = 2

\* C7: convert_to_series returns one Series per field, in the order of
\* get_field_vec() (Cebra0..6 Energy, Cebra0..6 Short, Cebra0..6 Time), each
\* named after its field, whatever the events and the order of their hits.
CanonicalNames ==
    << "Cebra0Energy", "Cebra1Energy", "Cebra2Energy", "Cebra3Energy",
       "Cebra4Energy", "Cebra5Energy", "Cebra6Energy",
       "Cebra0Short", "Cebra1Short", "Cebra2Short", "Cebra3Short",
       "Cebra4Short", "Cebra5Short", "Cebra6Short",
       "Cebra0Time", "Cebra1Time", "Cebra2Time", "Cebra3Time",
       "Cebra4Time", "Cebra5Time", "Cebra6Time" >>

C7_OrderDeterminism ==
    lifecycle = "Finalized" =>
        /\ Len(series) = Len(get_field_vec)
        /\ \A i \in 1..Len(series) :
              /\ series[i].name = as_ref(get_field_vec[i])
              /\ series[i].name = CanonicalNames[i]

C7_Witness ==
    /\ lifecycle = "Finalized"
    /\ Len(log) = 2
    /\ Len(log[1]) = 2
    /\ RoleOf(log[1][1]) \in CebraTypes
    /\ RoleOf(log[1][2]) \in CebraTypes
    /\ RoleIndex(RoleOf(log[1][1])) > RoleIndex(RoleOf(log[1][2]))
    /\ series[1].name = "Cebra0Energy"
    /\ series[21].name = "Cebra6Time"

\* C8: after N append_event calls convert_to_series yields, for every field,
\* exactly one Series of length N whose values are the field's column, index
\* by index.
C8_FinalizeFaithful ==
    lifecycle = "Finalized" =>
        /\ Len(series) = Cardinality(DOMAIN fields)
        /\ \A f \in DOMAIN fields :
              \E i \in 1..Len(series) :
                  /\ series[i].name = as_ref(f)
                  /\ \A j \in 1..Len(series) : series[j].name = as_ref(f) => j = i
                  /\ Len(series[i].values) = Len(log)
                  /\ \A k \in 1..Len(log) : series[i].values[k] = fields[f][k]

C8_Witness ==
    /\ lifecycle = "Finalized"
    /\ Len(log) = 2
    /\ \E i \in 1..Len(series) :
          /\ Len(series[i].values) = 2
          /\ series[i].values[1] # INVALID_VALUE
          /\ series[i].values[2] = INVALID_VALUE
    /\ \E i \in 1..Len(series) :
          /\ series[i].values[1] = INVALID_VALUE
          /\ series[i].values[2] # INVALID_VALUE

C10_HitOrderIrrelevant ==
    [][IsAppendStep =>
        LET e == NewEvent IN
        (\A R \in CebraTypes : Cardinality(HitsOf(e, R)) <= 1) =>
            \A p \in EventPermutations(Len(e)) :
                append_event(fields, rows, [i \in 1..Len(e) |-> e[p[i]]], map)
                    = [fields |-> fields', rows |-> rows']
      ]_vars

C10_Witness ==
    /\ Len(log) = 2
    /\ LET e == log[2] IN
       /\ Len(e) = 2
       /\ RoleOf(e[1]) = NoData
       /\ RoleOf(e[2]) \in CebraTypes
       /\ RowTriple(fields, RoleOf(e[2]), 2) = Triple(e[2])
    /\ LET e == log[1] IN
       /\ Len(e) = 2
       /\ RoleOf(e[1]) \in CebraTypes
       /\ RoleOf(e[2]) = NoData
       /\ RowTriple(fields, RoleOf(e[1]), 1) = Triple(e[1])

\* an aggregator of its own: ChannelData::default() followed by one
\* append_event call per event
RECURSIVE Aggregate(_, _)
Aggregate(events, m) ==
    IF events = << >> THEN ChannelData_default
    ELSE LET before == Aggregate(SubSeq(events, 1, Len(events) - 1), m)
         IN  append_event(before.fields, before.rows, events[Len(events)], m)

\* C11: for every split of the event sequence into E1 followed by E2, the
\* finalized output of an aggregator fed E1 and of another fed E2 have
\* the field order of the single aggregator's output, and concatenated
\* column by column they have its column contents.
C11_ShardConcatenation ==
    lifecycle = "Finalized" =>
        \A s \in 0..Len(log) :
            LET shard1 == convert_to_series(Aggregate(SubSeq(log, 1, s), map).fields)
                shard2 == convert_to_series(Aggregate(SubSeq(log, s + 1, Len(log)), map).fields)
            IN  /\ Len(shard1) = Len(series)
                /\ Len(shard2) = Len(series)
                /\ \A i \in 1..Len(series) :
                      /\ shard1[i].name = series[i].name
                      /\ shard2[i].name = series[i].name
                      /\ shard1[i].values \o shard2[i].values = series[i].values

C11_Witness ==
    /\ lifecycle = "Finalized"
    /\ Len(log) = 2
    /\ \E R \in CebraTypes :
          /\ HitsOf(log[1], R) # {}
          /\ HitsOf(log[2], R) = {}
          /\ series[EnergyOf(R) + 1].values = << Triple(log[1][Max(HitsOf(log[1], R))])[1], INVALID_VALUE >>
    /\ \E R \in CebraTypes : HitsOf(log[2], R) # {}

\* the values of the exported column with a given name
ColumnNamed(n) == series[CHOOSE i \in 1..Len(series) : series[i].name = n].values

\* C12: with roles A and B, after event 1 = [hit of A with (10, 1, 100)] and
\* event 2 = [hit of B with (20, 2, 200), an unmapped hit], the output has
\* A_Energy = [10, SENTINEL], A_Short = [1, SENTINEL], A_Time = [100, SENTINEL],
\* B_Energy = [SENTINEL, 20], B_Short = [SENTINEL, 2], B_Time = [SENTINEL, 200],
\* and every column has length 2.
C12_RoundTrip ==
    (lifecycle = "Finalized" /\ log = << << HitA >>, << HitB, HitU >> >>) =>
        LET A == map[0]
            B == map[1]
        IN  /\ ColumnNamed(A \o "Energy") = << 10, INVALID_VALUE >>
            /\ ColumnNamed(A \o "Short") = << 1, INVALID_VALUE >>
            /\ ColumnNamed(A \o "Time") = << 100, INVALID_VALUE >>
            /\ ColumnNamed(B \o "Energy") = << INVALID_VALUE, 20 >>
            /\ ColumnNamed(B \o "Short") = << INVALID_VALUE, 2 >>
            /\ ColumnNamed(B \o "Time") = << INVALID_VALUE, 200 >>
            /\ \A i \in 1..Len(series) : Len(series[i].values) = 2

C12_Witness ==
    /\ lifecycle = "Finalized"
    /\ log = << << HitA >>, << HitB, HitU >> >>
    /\ map[0] # map[1]
    /\ 2 \notin DOMAIN map
    /\ Len(series) = 21
    /\ ColumnNamed(map[0] \o "Energy") = << 10, INVALID_VALUE >>
    /\ ColumnNamed(map[1] \o "Time") = << INVALID_VALUE, 200 >>

\* C13: an append_event call turns every column c into c followed by exactly
\* one new cell and adds 1 to rows; no step shrinks a column or changes a
\* cell of an earlier row.
C13_AppendOnly ==
    [][/\ IsAppendStep =>
            /\ rows' = rows + 1
            /\ \A f \in DOMAIN fields :
                  /\ f \in DOMAIN fields'
                  /\ Len(fields'[f]) = Len(fields[f]) + 1
                  /\ SubSeq(fields'[f], 1, Len(fields[f])) = fields[f]
       /\ rows' >= rows
       /\ \A f \in DOMAIN fields :
             /\ f \in DOMAIN fields'
             /\ Len(fields'[f]) >= Len(fields[f])
             /\ \A k \in 1..Len(fields[f]) : fields'[f][k] = fields[f][k]
      ]_vars

C13_Witness ==
    /\ Len(log) = 2
    /\ lifecycle = "Accumulating"
    /\ \E f \in DOMAIN fields :
          /\ Len(fields[f]) = 2
          /\ fields[f][1] # INVALID_VALUE
          /\ fields[f][2] # INVALID_VALUE
          /\ fields[f][1] # fields[f][2]

\* the 21 fields of the registry
RegistryFields ==
    { Cebra0Energy, Cebra1Energy, Cebra2Energy, Cebra3Energy,
      Cebra4Energy, Cebra5Energy, Cebra6Energy,
      Cebra0Short, Cebra1Short, Cebra2Short, Cebra3Short,
      Cebra4Short, Cebra5Short, Cebra6Short,
      Cebra0Time, Cebra1Time, Cebra2Time, Cebra3Time,
      Cebra4Time, Cebra5Time, Cebra6Time }

\* C14: ChannelData::default() has rows = 0 and one zero-length column per
\* registry field, and in every reachable state the keys of fields are
\* exactly the 21 registry fields.
C14_FixedSchema ==
    /\ Cardinality(RegistryFields) = 21
    /\ DOMAIN fields = RegistryFields
    /\ log = << >> => (rows = 0 /\ \A f \in RegistryFields : fields[f] = << >>)

C14_Witness ==
    /\ Len(log) = 2
    /\ Len(log[1]) = 2
    /\ Len(log[2]) = 1
    /\ DOMAIN fields = RegistryFields
    /\ \E f \in RegistryFields : fields[f][2] # INVALID_VALUE

\* C15: in every row k and for every role R, the Energy, Short and Time
\* cells are all INVALID_VALUE when event k has no hit resolving to R, and
\* otherwise are the energy, energy_short and timestamp of the last hit of
\* event k that resolves to R.
C15_RowAlignment ==
    \A k \in 1..Len(log) : \A R \in CebraTypes :
        /\ Len(fields[EnergyOf(R)]) >= k
        /\ Len(fields[ShortOf(R)]) >= k
        /\ Len(fields[TimeOf(R)]) >= k
        /\ RowTriple(fields, R, k) =
              IF HitsOf(log[k], R) = {}
              THEN SentinelTriple
              ELSE Triple(log[k][Max(HitsOf(log[k], R))])

C15_Witness ==
    /\ Len(log) = 2
    /\ \E R \in CebraTypes :
          /\ HitsOf(log[1], R) = {}
          /\ HitsOf(log[2], R) = {1, 2}
          /\ Triple(log[2][1]) # Triple(log[2][2])
          /\ RowTriple(fields, R, 1) = SentinelTriple
          /\ RowTriple(fields, R, 2) = Triple(log[2][2])

====
